---- MODULE Spec2Model ----
(***************************************************************************)
(* Model of scripts/summarize.py: a command-line driver that reads a file  *)
(* (text, PDF or Word), sends its text to a remote completion API and      *)
(* prints the summary.  A behaviour of Spec is one run of main(), starting *)
(* when parse_args() has returned the parsed arguments.  A behaviour of    *)
(* SpecCall is one direct call of summarize_content() by an importer of    *)
(* the module.                                                             *)
(*                                                                         *)
(* Text is kept as a short explicit head of code points followed by a run  *)
(* of `pad` ASCII letters "A", which every listed encoding decodes alike,  *)
(* so that texts around the 100000 character budget stay small values.     *)
(***************************************************************************)
EXTENDS Integers, Sequences, FiniteSets

VARIABLES
    pc,          \* position of the run
    args,        \* parsed arguments: check_config, file_path, detail
    environ,     \* value of OPENAI_API_KEY in os.environ
    available,   \* packages that `import` finds
    api_key,     \* local api_key of main
    path,        \* what the file system holds at file_path, once looked at
    data,        \* the bytes of the file, once a text read looked at them
    content,     \* local content of main / argument of summarize_content
    summary,     \* local summary of main / return value of summarize_content
    sent,        \* text put after the prefix of the user message
    system,      \* content of the system message
    stdout,      \* lines printed on standard output, as tags
    stderr,      \* lines printed on standard error, as tags
    opened,      \* readers that opened the file, in order
    tried,       \* encodings read_text_file opened the file with, in order
    installs,    \* per operation, the number of install_dependencies() calls
    depth,       \* recursion depth of the operation in progress
    api_calls,   \* number of requests sent to the completion endpoint
    status       \* exit status of the process, -1 while it runs

vars == <<pc, args, environ, available, api_key, path, data, content, summary, sent,
          system, stdout, stderr, opened, tried, installs, depth, api_calls,
          status>>

-----------------------------------------------------------------------------
(* Bounds of the model *)

\* longest explicit head of a file, in bytes
MaxHead == 2
\* depth at which the interpreter raises RecursionError (1000 in CPython)
RecursionLimit == 3

(* Program constants *)

max_chars == 100000
\* len("\n\n[Content truncated...]")
MarkerLen == 24

None == [kind |-> "None"]
Unset == "<unset>"

Packages == {"openai", "PyPDF2", "docx"}
Operations == {"read_pdf", "read_docx", "summarize_content"}

-----------------------------------------------------------------------------
(* Text values *)

Str(h, p) == [kind |-> "str", head |-> h, pad |-> p]

StrLen(s) == Len(s.head) + s.pad

Min(a, b) == IF a < b THEN a ELSE b

\* s[:k]
Slice(s, k) ==
    IF k >= Len(s.head)
    THEN Str(s.head, Min(s.pad, k - Len(s.head)))
    ELSE Str(SubSeq(s.head, 1, k), 0)

\* str.isspace() on the code points below U+0100
IsSpace(c) == c \in (9..13) \cup (28..32) \cup {133, 160}

\* variant: bool(s), without strip()
NoStrip(s) == StrLen(s) > 0

\* bool(s.strip())
Strip(s) == s.pad > 0 \/ \E i \in 1..Len(s.head) : ~IsSpace(s.head[i])

-----------------------------------------------------------------------------
(* Decoders.  Each returns the sequence of code points, or Undecodable    *)
(* where Python raises UnicodeDecodeError.                                *)

Undecodable == <<-1>>

\* bytes a file's head is made of: space, "A", 0x81, 0xC3
Bytes == {32, 65, 129, 195}

RECURSIVE utf_8(_)
utf_8(b) ==
    IF b = <<>> THEN <<>>
    ELSE IF b[1] < 128
    THEN LET r == utf_8(Tail(b))
         IN  IF r = Undecodable THEN Undecodable ELSE <<b[1]>> \o r
    ELSE IF b[1] \in 194..223 /\ Len(b) >= 2 /\ b[2] \in 128..191
    THEN LET r == utf_8(Tail(Tail(b)))
         IN  IF r = Undecodable THEN Undecodable
             ELSE <<(b[1] - 192) * 64 + (b[2] - 128)>> \o r
    ELSE Undecodable

latin_1(b) == b

\* bytes cp1252 leaves undefined
Cp1252Undefined == {129, 141, 143, 144, 157}

cp1252(b) ==
    IF \E i \in 1..Len(b) : b[i] \in Cp1252Undefined THEN Undecodable ELSE b

Decode(encoding, b) ==
    CASE encoding = "utf-8" -> utf_8(b)
      [] encoding = "latin-1" -> latin_1(b)
      [] encoding = "cp1252" -> cp1252(b)
      [] encoding = "iso-8859-1" -> latin_1(b)

\* variant: latin-1 listed first
encodings_latin1_first == <<"latin-1", "utf-8", "cp1252", "iso-8859-1">>

encodings == <<"utf-8", "latin-1", "cp1252", "iso-8859-1">>

\* the loop of read_text_file from the i-th encoding on: the encodings
\* tried and the text returned, None when the loop runs off the list
RECURSIVE TextLoop(_, _, _)
TextLoop(f, i, seen) ==
    IF i > Len(encodings)
    THEN [tried |-> seen, text |-> None]
    ELSE LET d == Decode(encodings[i], f.head)
         IN  IF d = Undecodable
             THEN TextLoop(f, i + 1, Append(seen, encodings[i]))
             ELSE [tried |-> Append(seen, encodings[i]), text |-> Str(d, f.pad)]

-----------------------------------------------------------------------------
(* get_system_prompt *)

prompts ==
    [brief |-> "Provide a concise summary in 2-3 sentences",
     medium |-> "Provide a clear summary in one well-structured paragraph",
     detailed |-> "Provide a comprehensive summary with multiple paragraphs"]

\* variant: the first template as the default
get_system_prompt_first(detail_level) ==
    IF detail_level \in DOMAIN prompts THEN prompts[detail_level]
    ELSE prompts["brief"]

get_system_prompt(detail_level) ==
    IF detail_level \in DOMAIN prompts THEN prompts[detail_level]
    ELSE prompts["medium"]

\* variant: `>=` in place of `>`
TruncateAtBudget(c) ==
    IF StrLen(c) >= max_chars
    THEN [text |-> Slice(c, max_chars), marker |-> TRUE]
    ELSE [text |-> c, marker |-> FALSE]

\* the truncation of summarize_content
Truncate(c) ==
    IF StrLen(c) > max_chars
    THEN [text |-> Slice(c, max_chars), marker |-> TRUE]
    ELSE [text |-> c, marker |-> FALSE]

-----------------------------------------------------------------------------
(* Inputs *)

\* file_path values: absent, empty, and names with each kind of suffix
FilePaths == {Unset, "", "report.pdf", "REPORT.PDF", "paper.docx", "old.doc",
              "OLD.DOC", "notes.txt", "README"}

\* Path(file_path).suffix
Suffix(name) ==
    CASE name = "report.pdf" -> ".pdf"
      [] name = "REPORT.PDF" -> ".PDF"
      [] name = "paper.docx" -> ".docx"
      [] name = "old.doc" -> ".doc"
      [] name = "OLD.DOC" -> ".DOC"
      [] name = "notes.txt" -> ".txt"
      [] OTHER -> ""

\* variant: the suffix compared without lower()
NoLower(s) == s

\* str.lower() on the suffixes
Lower(s) ==
    CASE s = ".PDF" -> ".pdf"
      [] s = ".DOC" -> ".doc"
      [] OTHER -> s

\* --detail choices accepted by the parser
Choices == {"brief", "medium", "detailed"}

\* detail_level values a direct caller of summarize_content may pass
DetailLevels == Choices \cup {"", "BRIEF", "long"}

EnvValues == {Unset, "", "sk-test"}

Pads == {0, max_chars - 1, max_chars, max_chars + 1}

RECURSIVE SeqsUpTo(_, _)
SeqsUpTo(S, n) ==
    IF n = 0 THEN {<<>>}
    ELSE LET R == SeqsUpTo(S, n - 1)
         IN  R \cup {Append(r, x) : r \in {q \in R : Len(q) = n - 1}, x \in S}

\* what the file on disk may hold
Files == {Str(h, p) : h \in SeqsUpTo(Bytes, MaxHead), p \in Pads}

\* what the PDF and Word libraries may extract
Extracted == {Str(h, p) : h \in {<<>>, <<32>>, <<65>>}, p \in {0, max_chars, max_chars + 1}}

\* variant: `is not None` in place of the truth value
TruthyNotNone(s) == s # Unset

\* truth value of a string or None
Truthy(s) == s # Unset /\ s # ""

-----------------------------------------------------------------------------
(* The run of main() *)

Init ==
    /\ pc = "main"
    /\ args \in [check_config : BOOLEAN, file_path : FilePaths, detail : Choices]
    /\ environ \in EnvValues
    /\ available \in SUBSET Packages
    /\ api_key = Unset
    /\ path = "?"
    /\ data = None
    /\ content = None
    /\ summary = None
    /\ sent = None
    /\ system = ""
    /\ stdout = <<>>
    /\ stderr = <<>>
    /\ opened = <<>>
    /\ tried = <<>>
    /\ installs = [op \in Operations |-> 0]
    /\ depth = 0
    /\ api_calls = 0
    /\ status = -1

\* sys.exit(code) and `return code` from main
Exit(code) == pc' = "exit" /\ status' = code

check_openai_available == "openai" \in available

\* lines 202-215: --check-config
main_check_config ==
    /\ pc = "main"
    /\ args.check_config
    /\ api_key' = environ
    /\ IF Truthy(environ)
       THEN /\ stdout' = stdout \o <<"OPENAI_API_KEY is set",
                   IF check_openai_available
                   THEN "OpenAI package is available"
                   ELSE "OpenAI package not installed">>
            /\ Exit(0)
       ELSE /\ stdout' = stdout \o <<"OPENAI_API_KEY is not set",
                   "Please set your API key:", "export OPENAI_API_KEY='sk-...'">>
            /\ Exit(1)
    /\ UNCHANGED <<args, environ, available, path, data, content, summary, sent,
                   system, stderr, opened, tried, installs, depth, api_calls>>

\* lines 218-220: no file path
main_no_file_path ==
    /\ pc = "main"
    /\ ~args.check_config
    /\ ~Truthy(args.file_path)
    /\ stdout' = stdout \o <<"usage">>
    /\ Exit(1)
    /\ UNCHANGED <<args, environ, available, api_key, path, data, content, summary,
                   sent, system, stderr, opened, tried, installs, depth,
                   api_calls>>

\* variant: get_api_key prints the guidance and returns without sys.exit(1)
get_api_key_no_exit ==
    /\ pc = "main"
    /\ ~args.check_config
    /\ Truthy(args.file_path)
    /\ stderr' = IF ~Truthy(environ)
                  THEN stderr \o <<"ERROR: OPENAI_API_KEY environment variable not set.",
                          "Please set your API key:", "export OPENAI_API_KEY='sk-...'",
                          "Or add to your shell profile", "Reading file">>
                  ELSE stderr \o <<"Reading file">>
    /\ api_key' = environ
    /\ pc' = "read_file"
    /\ UNCHANGED <<args, environ, available, path, data, content, summary, sent,
                   system, stdout, opened, tried, installs, depth, api_calls,
                   status>>

\* lines 223-227: get_api_key(), then the call of read_file
get_api_key ==
    /\ pc = "main"
    /\ ~args.check_config
    /\ Truthy(args.file_path)
    /\ IF ~Truthy(environ)
       THEN /\ stderr' = stderr \o <<"ERROR: OPENAI_API_KEY environment variable not set.",
                   "Please set your API key:", "export OPENAI_API_KEY='sk-...'",
                   "Or add to your shell profile">>
            /\ Exit(1)
            /\ UNCHANGED api_key
       ELSE /\ api_key' = environ
            /\ stderr' = stderr \o <<"Reading file">>
            /\ pc' = "read_file"
            /\ UNCHANGED status
    /\ UNCHANGED <<args, environ, available, path, data, content, summary, sent,
                   system, stdout, opened, tried, installs, depth, api_calls>>

-----------------------------------------------------------------------------
(* read_file and the readers *)

\* install_dependencies() called by operation op: pip may or may not make
\* the missing packages importable
install_dependencies(op) ==
    /\ installs' = [installs EXCEPT ![op] = @ + 1]
    /\ \E S \in SUBSET Packages : available \subseteq S /\ available' = S
    /\ stdout' = stdout \o <<"Installing required packages...",
                              "Dependencies installed successfully.">>

\* lines 92-94
read_file_not_found ==
    /\ pc = "read_file"
    /\ path' = "missing"
    /\ UNCHANGED data
    /\ stderr' = stderr \o <<"ERROR: File not found">>
    /\ content' = None
    /\ pc' = "read_returned"
    /\ UNCHANGED <<args, environ, available, api_key, summary, sent, system,
                   stdout, opened, tried, installs, depth, api_calls, status>>

\* lines 96-98
read_file_not_a_file ==
    /\ pc = "read_file"
    /\ path' = "directory"
    /\ UNCHANGED data
    /\ stderr' = stderr \o <<"ERROR: Path is not a file">>
    /\ content' = None
    /\ pc' = "read_returned"
    /\ UNCHANGED <<args, environ, available, api_key, summary, sent, system,
                   stdout, opened, tried, installs, depth, api_calls, status>>

\* the reader lines 100-114 pick for a suffix
Reader(suffix) ==
    IF suffix = ".pdf" THEN "read_pdf"
    ELSE IF suffix \in {".docx", ".doc"} THEN "read_docx"
    ELSE "read_text_file"

\* lines 100-114: an existing regular file
read_file_dispatch ==
    /\ pc = "read_file"
    /\ path' = "file"
    /\ UNCHANGED data
    /\ LET suffix == Lower(Suffix(args.file_path))
       IN  /\ pc' = Reader(suffix)
           /\ stderr' = IF suffix = ".doc"
                         THEN stderr \o <<"WARNING: .doc format may not be fully supported">>
                         ELSE stderr
    /\ depth' = 0
    /\ UNCHANGED <<args, environ, available, api_key, content, summary, sent,
                   system, stdout, opened, tried, installs, api_calls, status>>

\* lines 38-53
read_text_file ==
    /\ pc = "read_text_file"
    /\ \E f \in Files :
         LET r == TextLoop(f, 1, <<>>)
         IN  /\ data' = f
             /\ \/ /\ tried' = r.tried
                   /\ content' = r.text
                   /\ stderr' = IF r.text = None
                                 THEN stderr \o <<"Unable to read file with common encodings">>
                                 ELSE stderr
                \/ \* open() or read() raises another exception at attempt k
                   \E k \in 1..Len(r.tried) :
                      /\ tried' = SubSeq(r.tried, 1, k)
                      /\ content' = None
                      /\ stderr' = stderr \o <<"Error reading file">>
    /\ UNCHANGED path
    /\ opened' = Append(opened, "read_text_file")
    /\ pc' = "read_returned"
    /\ UNCHANGED <<args, environ, available, api_key, summary, sent, system,
                   stdout, installs, depth, api_calls, status>>

\* the package an extraction operation imports
Package(op) == IF op = "read_pdf" THEN "PyPDF2" ELSE "docx"

ErrorLine(op) == IF op = "read_pdf" THEN "Error reading PDF" ELSE "Error reading DOCX"

\* lines 58-64 and 76-79: the import succeeds and the text is extracted
extract_ok(op) ==
    /\ pc = op
    /\ Package(op) \in available
    /\ opened' = Append(opened, op)
    /\ \E t \in Extracted : content' = t
    /\ pc' = "read_returned"
    /\ UNCHANGED <<args, environ, available, api_key, path, data, summary, sent,
                   system, stdout, stderr, tried, installs, depth, api_calls,
                   status>>

\* lines 69-71 and 84-86: the library raises while opening or extracting
extract_error(op) ==
    /\ pc = op
    /\ Package(op) \in available
    /\ opened' = Append(opened, op)
    /\ stderr' = stderr \o <<ErrorLine(op)>>
    /\ content' = None
    /\ pc' = "read_returned"
    /\ UNCHANGED <<args, environ, available, api_key, path, data, summary, sent,
                   system, stdout, tried, installs, depth, api_calls, status>>

\* whether the except ImportError branch calls the operation again
Retries(d) == d < RecursionLimit

\* lines 65-68 and 80-83: ImportError, install, call the operation again
extract_import_error(op) ==
    /\ pc = op
    /\ Package(op) \notin available
    /\ Retries(depth)
    /\ stderr' = stderr \o <<"not installed. Installing...">>
    /\ install_dependencies(op)
    /\ depth' = depth + 1
    /\ UNCHANGED <<pc, args, environ, api_key, path, data, content, summary, sent,
                   system, opened, tried, api_calls, status>>

\* the interpreter's recursion limit is reached: RecursionError is raised
\* inside the try block (caught by except Exception) or inside the handler
\* (it leaves every frame and the interpreter prints the traceback)
extract_recursion_error(op) ==
    /\ pc = op
    /\ Package(op) \notin available
    /\ ~Retries(depth)
    /\ \/ /\ stderr' = stderr \o <<ErrorLine(op)>>
          /\ content' = None
          /\ pc' = "read_returned"
       \/ /\ stderr' = stderr \o <<"Traceback">>
          /\ pc' = "raised"
          /\ UNCHANGED content
    /\ UNCHANGED <<args, environ, available, api_key, path, data, summary, sent,
                   system, stdout, opened, tried, installs, depth, api_calls,
                   status>>

read_pdf ==
    \/ extract_ok("read_pdf")
    \/ extract_error("read_pdf")
    \/ extract_import_error("read_pdf")
    \/ extract_recursion_error("read_pdf")

read_docx ==
    \/ extract_ok("read_docx")
    \/ extract_error("read_docx")
    \/ extract_import_error("read_docx")
    \/ extract_recursion_error("read_docx")

-----------------------------------------------------------------------------
(* main between read_file and summarize_content *)

\* lines 229-230
main_content_none ==
    /\ pc = "read_returned"
    /\ content = None
    /\ Exit(1)
    /\ UNCHANGED <<args, environ, available, api_key, path, data, content,
                   summary, sent, system, stdout, stderr, opened, tried,
                   installs, depth, api_calls>>

\* lines 232-234
main_content_empty ==
    /\ pc = "read_returned"
    /\ content # None
    /\ ~Strip(content)
    /\ stderr' = stderr \o <<"ERROR: File appears to be empty or unreadable">>
    /\ Exit(1)
    /\ UNCHANGED <<args, environ, available, api_key, path, data, content,
                   summary, sent, system, stdout, opened, tried, installs,
                   depth, api_calls>>

\* lines 236-240: the call of summarize_content
main_summarize ==
    /\ pc = "read_returned"
    /\ content # None
    /\ Strip(content)
    /\ stderr' = stderr \o <<"File size", "Generating summary">>
    /\ pc' = "summarize_content"
    /\ depth' = 0
    /\ UNCHANGED <<args, environ, available, api_key, path, data, content,
                   summary, sent, system, stdout, opened, tried, installs,
                   api_calls, status>>

-----------------------------------------------------------------------------
(* summarize_content *)

\* lines 140-160, the request answered: the generated text is returned
summarize_content_ok ==
    /\ pc = "summarize_content"
    /\ "openai" \in available
    /\ LET t == Truncate(content)
       IN  /\ sent' = t
           /\ stderr' = IF t.marker
                         THEN stderr \o <<"NOTE: File is very large">>
                         ELSE stderr
    /\ system' = get_system_prompt(args.detail)
    /\ api_calls' = api_calls + 1
    /\ summary' = Str(<<65>>, 0)
    /\ pc' = "summarize_returned"
    /\ UNCHANGED <<args, environ, available, api_key, path, data, content,
                   stdout, opened, tried, installs, depth, status>>

\* variant: a failed request is sent again
summarize_content_error_resend ==
    /\ pc = "summarize_content"
    /\ "openai" \in available
    /\ Retries(depth)
    /\ sent' = Truncate(content)
    /\ system' = get_system_prompt(args.detail)
    /\ api_calls' = api_calls + 1
    /\ depth' = depth + 1
    /\ stderr' = stderr \o <<"ERROR: Failed to generate summary">>
    /\ UNCHANGED <<pc, args, environ, available, api_key, path, data, content,
                   summary, stdout, opened, tried, installs, status>>

\* lines 140-158 and 166-172: the request raises
summarize_content_error ==
    /\ pc = "summarize_content"
    /\ "openai" \in available
    /\ LET t == Truncate(content)
       IN  /\ sent' = t
           /\ stderr' = (IF t.marker
                          THEN stderr \o <<"NOTE: File is very large">>
                          ELSE stderr)
                         \o <<"ERROR: Failed to generate summary", "Please check:">>
    /\ system' = get_system_prompt(args.detail)
    /\ api_calls' = api_calls + 1
    /\ summary' = None
    /\ pc' = "summarize_returned"
    /\ UNCHANGED <<args, environ, available, api_key, path, data, content,
                   stdout, opened, tried, installs, depth, status>>

\* lines 162-165: ImportError, install, call summarize_content again
summarize_content_import_error ==
    /\ pc = "summarize_content"
    /\ "openai" \notin available
    /\ Retries(depth)
    /\ stderr' = stderr \o <<"OpenAI package not installed. Installing...">>
    /\ install_dependencies("summarize_content")
    /\ depth' = depth + 1
    /\ UNCHANGED <<pc, args, environ, api_key, path, data, content, summary,
                   sent, system, opened, tried, api_calls, status>>

\* the recursion limit is reached: RecursionError inside the try block
\* (caught at lines 166-172) or inside the handler (uncaught)
summarize_content_recursion_error ==
    /\ pc = "summarize_content"
    /\ "openai" \notin available
    /\ ~Retries(depth)
    /\ \/ /\ stderr' = stderr \o <<"ERROR: Failed to generate summary", "Please check:">>
          /\ summary' = None
          /\ pc' = "summarize_returned"
       \/ /\ stderr' = stderr \o <<"Traceback">>
          /\ pc' = "raised"
          /\ UNCHANGED summary
    /\ UNCHANGED <<args, environ, available, api_key, path, data, content,
                   sent, system, stdout, opened, tried, installs, depth,
                   api_calls, status>>

summarize_content ==
    \/ summarize_content_ok
    \/ summarize_content_error
    \/ summarize_content_import_error
    \/ summarize_content_recursion_error

-----------------------------------------------------------------------------
(* main after summarize_content *)

\* lines 242-243
main_summary_none ==
    /\ pc = "summarize_returned"
    /\ summary = None
    /\ Exit(1)
    /\ UNCHANGED <<args, environ, available, api_key, path, data, content,
                   summary, sent, system, stdout, stderr, opened, tried,
                   installs, depth, api_calls>>

\* lines 246-252
main_output ==
    /\ pc = "summarize_returned"
    /\ summary # None
    /\ stdout' = stdout \o <<"====", "SUMMARY", "====", "summary text", "====">>
    /\ Exit(0)
    /\ UNCHANGED <<args, environ, available, api_key, path, data, content,
                   summary, sent, system, stderr, opened, tried, installs,
                   depth, api_calls>>

\* line 255: an exception that left a reader or summarize_content leaves main
main_raised ==
    /\ pc = "raised"
    /\ Exit(1)
    /\ UNCHANGED <<args, environ, available, api_key, path, data, content,
                   summary, sent, system, stdout, stderr, opened, tried,
                   installs, depth, api_calls>>

main ==
    \/ main_check_config
    \/ main_no_file_path
    \/ get_api_key
    \/ main_content_none
    \/ main_content_empty
    \/ main_summarize
    \/ main_summary_none
    \/ main_output
    \/ main_raised

read_file ==
    \/ read_file_not_found
    \/ read_file_not_a_file
    \/ read_file_dispatch
    \/ read_text_file
    \/ read_pdf
    \/ read_docx

Next == main \/ read_file \/ summarize_content

Spec == Init /\ [][Next]_vars

-----------------------------------------------------------------------------
(* A direct call summarize_content(content, detail_level, model, api_key) *)

InitCall ==
    /\ pc = "summarize_content"
    /\ args \in [check_config : {FALSE}, file_path : {Unset}, detail : DetailLevels]
    /\ content \in Extracted
    /\ environ = Unset
    /\ available \in SUBSET Packages
    /\ api_key = "sk-test"
    /\ path = "?"
    /\ data = None
    /\ summary = None
    /\ sent = None
    /\ system = ""
    /\ stdout = <<>>
    /\ stderr = <<>>
    /\ opened = <<>>
    /\ tried = <<>>
    /\ installs = [op \in Operations |-> 0]
    /\ depth = 0
    /\ api_calls = 0
    /\ status = -1

NextCall == summarize_content

SpecCall == InitCall /\ [][NextCall]_vars

-----------------------------------------------------------------------------
(* Properties *)

Has(stream, line) == \E i \in 1..Len(stream) : stream[i] = line

\* the run touched the file system at file_path
FileAccess == path # "?" \/ opened # <<>> \/ tried # <<>>

\* the result block is on standard output
BlockPrinted == Has(stdout, "SUMMARY")

\* content is a string that is not whitespace-only (space is the only
\* whitespace among the code points of the model)
NonBlank(c) ==
    /\ c # None
    /\ (c.pad > 0 \/ \E i \in 1..Len(c.head) : c.head[i] # 32)

\* C1: for every operation the number of dependency installs is at most 1
C1_InstallAtMostOnce == \A op \in Operations : installs[op] <= 1

\* C2 as stated: a --check-config run never reads the file or calls the API
\* and exits 0 iff OPENAI_API_KEY is set, 1 otherwise
C2_ExitZeroIffSet ==
    args.check_config =>
        /\ ~FileAccess
        /\ api_calls = 0
        /\ pc = "exit" => /\ status \in {0, 1}
                           /\ status = 0 <=> environ # Unset

\* C2 amended: a --check-config run never reads the file or calls the API
\* and exits 0 iff OPENAI_API_KEY is set to a non-empty value, 1 otherwise
C2_ExitZeroIffNonEmpty ==
    args.check_config =>
        /\ ~FileAccess
        /\ api_calls = 0
        /\ pc = "exit" => /\ status \in {0, 1}
                           /\ status = 0 <=> environ \notin {Unset, ""}

C2_Witness ==
    /\ args.check_config
    /\ args.file_path = "notes.txt"
    /\ environ = ""
    /\ pc = "exit"
    /\ status = 1

Guidance == "export OPENAI_API_KEY='sk-...'"

\* C3 as stated: every run without --check-config and without the
\* credential set ends with status 1, the guidance on how to set the
\* credential printed, and no file access, whatever the other arguments
C3_GuidanceAlways ==
    (~args.check_config /\ environ = Unset) =>
        /\ ~FileAccess
        /\ api_calls = 0
        /\ pc \in {"main", "exit"}
        /\ pc = "main" => ENABLED Next
        /\ pc = "exit" => status = 1 /\ (Has(stderr, Guidance) \/ Has(stdout, Guidance))

\* C3 amended: such a run ends with status 1 and no file access; it prints
\* the guidance when a non-empty file path was given, and only the usage
\* text (no guidance) when the file path is absent or empty
C3_GuidanceWithFilePath ==
    (~args.check_config /\ environ = Unset) =>
        /\ ~FileAccess
        /\ api_calls = 0
        /\ pc \in {"main", "exit"}
        /\ pc = "main" => ENABLED Next
        /\ pc = "exit" =>
            /\ status = 1
            /\ IF args.file_path \in {Unset, ""}
               THEN stdout = <<"usage">> /\ stderr = <<>>
               ELSE Has(stderr, Guidance) /\ stdout = <<>>

C3_Witness ==
    /\ ~args.check_config
    /\ environ = Unset
    /\ args.file_path = "report.pdf"
    /\ pc = "exit"
    /\ Has(stderr, Guidance)

\* C4: content of at most max_chars characters is sent unchanged; longer
\* content is sent as its first max_chars characters plus the marker; the
\* text sent is never longer than max_chars plus the marker
C4_TruncationBoundary ==
    sent # None =>
        /\ StrLen(content) <= max_chars => sent.text = content /\ ~sent.marker
        /\ StrLen(content) > max_chars =>
            /\ sent.marker
            /\ sent.text.head = content.head
            /\ Len(sent.text.head) + sent.text.pad = max_chars
        /\ StrLen(sent.text) + (IF sent.marker THEN MarkerLen ELSE 0)
               <= max_chars + MarkerLen

C4_Witness ==
    /\ sent # None
    /\ StrLen(content) = max_chars + 1
    /\ sent.marker
    /\ StrLen(sent.text) = max_chars
    /\ api_calls = 1

\* C5: in default mode the result block is printed only when the read
\* returned text that is not whitespace-only and the summarization returned
\* a summary, and then the run exits 0; every other run prints no block and
\* exits 1
C5_BlockOnlyOnSuccess ==
    ~args.check_config =>
        /\ BlockPrinted =>
            /\ NonBlank(content)
            /\ summary # None
            /\ api_calls = 1
            /\ pc = "exit" /\ status = 0
        /\ pc = "exit" =>
            IF NonBlank(content) /\ summary # None
            THEN BlockPrinted /\ status = 0
            ELSE ~BlockPrinted /\ status = 1
        /\ summary # None => NonBlank(content)
        /\ content # None => path = "file"

C5_Witness ==
    /\ ~args.check_config
    /\ pc = "exit"
    /\ status = 0
    /\ BlockPrinted
    /\ data # None
    /\ tried = <<"utf-8", "latin-1">>

\* lines that report a failure on the error stream
Diagnostics ==
    {"ERROR: OPENAI_API_KEY environment variable not set.",
     "ERROR: File not found", "ERROR: Path is not a file",
     "Error reading file", "Unable to read file with common encodings",
     "Error reading PDF", "Error reading DOCX",
     "ERROR: File appears to be empty or unreadable",
     "ERROR: Failed to generate summary", "Traceback"}

Diagnosed == \E i \in 1..Len(stderr) : stderr[i] \in Diagnostics

\* C6 as stated: every run that ends with a non-zero status has written a
\* diagnostic to the error stream, and so has every return of None by
\* read_file or summarize_content
C6_DiagnosticOnStderr ==
    /\ (pc = "exit" /\ status # 0) => Diagnosed
    /\ (pc = "read_returned" /\ content = None) => Diagnosed
    /\ (pc = "summarize_returned" /\ summary = None) =>
           Has(stderr, "ERROR: Failed to generate summary")

\* C7: get_system_prompt returns a non-empty string for brief, medium and
\* detailed, the three are pairwise distinct, and any other level gets the
\* medium string
C7_PromptTotal ==
    /\ \A l \in Choices : get_system_prompt(l) # ""
    /\ \A l, m \in Choices : l # m => get_system_prompt(l) # get_system_prompt(m)
    /\ api_calls > 0 =>
        /\ system # ""
        /\ args.detail = "brief" => system = prompts.brief
        /\ args.detail = "medium" => system = prompts.medium
        /\ args.detail = "detailed" => system = prompts.detailed
        /\ args.detail \notin {"brief", "medium", "detailed"} =>
               system = prompts.medium

C7_Witness ==
    /\ api_calls = 1
    /\ args.detail = "BRIEF"
    /\ system = prompts.medium

\* C8 as stated: the encodings are tried in the order utf-8, latin-1,
\* cp1252, iso-8859-1, the first successful decode is returned, and some
\* file content makes every decode fail
C8_UndecodableReachable ==
    /\ tried # <<>> =>
        /\ \E n \in 1..4 : tried = SubSeq(<<"utf-8", "latin-1", "cp1252", "iso-8859-1">>, 1, n)
        /\ (pc = "read_returned" /\ content # None) =>
               content = Str(Decode(tried[Len(tried)], data.head), data.pad)
    /\ \E f \in Files : TextLoop(f, 1, <<>>).text = None

\* C8 amended: the encodings are tried in that order and the first
\* successful decode is returned; latin-1 decodes every byte sequence, so
\* at most utf-8 and latin-1 are tried and the failure with "Unable to read
\* file with common encodings" never happens
C8_Latin1AlwaysDecodes ==
    /\ tried # <<>> =>
        /\ tried \in {<<"utf-8">>, <<"utf-8", "latin-1">>}
        /\ data # None
        /\ (pc = "read_returned" /\ content # None) =>
            /\ content = Str(Decode(tried[Len(tried)], data.head), data.pad)
            /\ Len(tried) = 2 => utf_8(data.head) = Undecodable
        /\ (pc = "read_returned" /\ content = None) =>
               Has(stderr, "Error reading file")
    /\ ~Has(stderr, "Unable to read file with common encodings")

C8_Witness ==
    /\ pc = "read_returned"
    /\ tried = <<"utf-8", "latin-1">>
    /\ data = Str(<<129>>, 0)
    /\ content = Str(<<129>>, 0)

\* the reader C9 expects for each file name
ExpectedReader ==
    [n \in FilePaths \ {Unset, ""} |->
        IF n \in {"report.pdf", "REPORT.PDF"} THEN "read_pdf"
        ELSE IF n \in {"paper.docx", "old.doc", "OLD.DOC"} THEN "read_docx"
        ELSE "read_text_file"]

\* C9: a missing path or a non-file path returns None with its diagnostic
\* and no reader opens it; a regular file goes to exactly the reader of its
\* lower-cased suffix, and a .doc file gets the warning before extraction
C9_Dispatch ==
    /\ path \in {"missing", "directory"} =>
        /\ opened = <<>> /\ tried = <<>>
        /\ content = None
        /\ pc \in {"read_returned", "exit"}
        /\ Has(stderr, IF path = "missing" THEN "ERROR: File not found"
                        ELSE "ERROR: Path is not a file")
    /\ pc \in {"read_pdf", "read_docx", "read_text_file"} =>
        /\ path = "file"
        /\ pc = ExpectedReader[args.file_path]
        /\ opened = <<>>
    /\ opened # <<>> =>
        /\ path = "file"
        /\ opened = <<ExpectedReader[args.file_path]>>
    /\ (pc = "read_docx" \/ opened = <<"read_docx">>) =>
           (args.file_path \in {"old.doc", "OLD.DOC"}
               <=> Has(stderr, "WARNING: .doc format may not be fully supported"))

C9_Witness ==
    /\ args.file_path = "OLD.DOC"
    /\ opened = <<"read_docx">>
    /\ content # None
    /\ Has(stderr, "WARNING: .doc format may not be fully supported")

\* C10: the completion endpoint is called at most once in a run, and only
\* after the credential was resolved, the file was read and its content
\* was found not to be whitespace-only
C10_OneCall ==
    /\ api_calls <= 1
    /\ api_calls = 1 =>
        /\ api_key \notin {Unset, ""}
        /\ opened # <<>>
        /\ NonBlank(content)
        /\ ~args.check_config

C10_Witness ==
    /\ api_calls = 1
    /\ installs["summarize_content"] = 2
    /\ summary = None
    /\ pc = "exit"

====
